---- MODULE Spec2Model ----
(***************************************************************************)
(* Model of Extra_Kuub.py: the order metrics pipeline of the "Extra Afval  *)
(* Dashboard".  One upload is read (header detection), validated,          *)
(* normalized, configured by the user (two sliders and a date range),      *)
(* filtered, flagged, aggregated and exported.                             *)
(*                                                                         *)
(* Floats are modelled as exact rationals plus inf, -inf and NaN; binary   *)
(* rounding is not modelled.  Text is a sequence of one-character strings. *)
(***************************************************************************)
EXTENDS Integers, Sequences, FiniteSets, TLC

VARIABLES
    pc,          \* position of the script run
    upload,      \* the raw grid of the uploaded sheet (rows of cells)
    df,          \* the data frame: [columns, rows]
    header_row,  \* second result of read_excel_smart
    cfg,         \* slider values and the chosen date range
    df_flagged,  \* rows of df that pass both thresholds
    out,         \* what the run has shown or produced so far
    series,      \* input of a stand-alone clean_to_float call
    cleaned      \* result of a stand-alone clean_to_float call

vars == <<pc, upload, df, header_row, cfg, df_flagged, out, series, cleaned>>

(***************************************************************************)
(* Bounds                                                                  *)
(***************************************************************************)
MaxRows == 2      \* data rows of an upload
MaxLen == 3       \* characters of an enumerated numeric cell text
MaxGridRows == 3  \* rows of an enumerated raw grid (header detection)

(***************************************************************************)
(* Sequences                                                               *)
(***************************************************************************)
Range(s) == {s[i] : i \in 1..Len(s)}

SeqsUpTo(S, n) == UNION {[1..k -> S] : k \in 0..n}

RECURSIVE SelectIdx(_, _, _)
\* the elements of s whose position satisfies keep, in order
SelectIdx(s, keep, i) ==
    IF i > Len(s) THEN <<>>
    ELSE (IF keep[i] THEN <<s[i]>> ELSE <<>>) \o SelectIdx(s, keep, i + 1)

(***************************************************************************)
(* Floats: [k, n, d] with k in fin/inf/ninf/nan; a finite value is the     *)
(* reduced fraction n/d, d > 0.                                            *)
(***************************************************************************)
Abs(x) == IF x < 0 THEN -x ELSE x

RECURSIVE GCD(_, _)
GCD(a, b) == IF b = 0 THEN a ELSE GCD(b, a % b)

NaN == [k |-> "nan", n |-> 0, d |-> 0]
Inf == [k |-> "inf", n |-> 1, d |-> 0]
NInf == [k |-> "ninf", n |-> -1, d |-> 0]

Fin(n, d) ==
    LET g == GCD(Abs(n), d)
    IN  [k |-> "fin", n |-> n \div g, d |-> d \div g]

IsFinite(x) == x.k = "fin"

FAdd(x, y) ==
    IF x.k = "nan" \/ y.k = "nan" THEN NaN
    ELSE IF x.k = "fin" /\ y.k = "fin" THEN Fin(x.n * y.d + y.n * x.d, x.d * y.d)
    ELSE IF x.k = "fin" THEN y
    ELSE IF y.k = "fin" THEN x
    ELSE IF x.k = y.k THEN x
    ELSE NaN

FMul(x, y) ==
    IF x.k = "nan" \/ y.k = "nan" THEN NaN
    ELSE IF x.k = "fin" /\ y.k = "fin" THEN Fin(x.n * y.n, x.d * y.d)
    ELSE IF x.n = 0 \/ y.n = 0 THEN NaN
    ELSE IF (x.n > 0) = (y.n > 0) THEN Inf
    ELSE NInf

\* numpy float division: x/0 is inf, -inf or NaN, never an exception
FDiv(x, y) ==
    IF x.k = "nan" \/ y.k = "nan" THEN NaN
    ELSE IF y.k = "fin"
    THEN IF y.n = 0
         THEN (IF x.n = 0 THEN NaN ELSE IF x.n > 0 THEN Inf ELSE NInf)
         ELSE IF x.k = "fin"
              THEN (IF y.n > 0 THEN Fin(x.n * y.d, x.d * y.n)
                    ELSE Fin(-(x.n * y.d), x.d * (-y.n)))
              ELSE (IF (x.n > 0) = (y.n > 0) THEN Inf ELSE NInf)
    ELSE IF x.k = "fin" THEN Fin(0, 1)
    ELSE NaN

\* x > y on floats; every comparison with NaN is false
FGreater(x, y) ==
    IF x.k = "nan" \/ y.k = "nan" THEN FALSE
    ELSE IF x.k = "fin" /\ y.k = "fin" THEN x.n * y.d > y.n * x.d
    ELSE IF x.k = "inf" THEN y.k # "inf"
    ELSE IF x.k = "ninf" THEN FALSE
    ELSE y.k = "ninf"

FGreaterEq(x, y) == FGreater(x, y) \/ (x.k # "nan" /\ x = y)

RECURSIVE FSumFrom(_, _)
FSumFrom(s, i) == IF i > Len(s) THEN Fin(0, 1) ELSE FAdd(s[i], FSumFrom(s, i + 1))

NotNaN(x) == x.k # "nan"

\* Series.sum(): skipna=True drops NaN only; infinities are added
SeriesSum(s) == FSumFrom(SelectSeq(s, NotNaN), 1)

\* Series.mean(): skipna=True drops NaN only; the mean of nothing is NaN
SeriesMean(s) ==
    LET kept == SelectSeq(s, NotNaN)
    IN  IF Len(kept) = 0 THEN NaN
        ELSE FDiv(FSumFrom(kept, 1), Fin(Len(kept), 1))

(***************************************************************************)
(* clean_to_float                                                          *)
(***************************************************************************)
Digits == {"0", "1", "2", "3", "4", "5", "6", "7", "8", "9"}

DigitVal(c) ==
    CASE c = "0" -> 0 [] c = "1" -> 1 [] c = "2" -> 2 [] c = "3" -> 3
      [] c = "4" -> 4 [] c = "5" -> 5 [] c = "6" -> 6 [] c = "7" -> 7
      [] c = "8" -> 8 [] c = "9" -> 9

RECURSIVE Pow10(_)
Pow10(n) == IF n = 0 THEN 1 ELSE 10 * Pow10(n - 1)

\* .str.replace(",", ".", regex=False)
ReplaceComma(t) == [i \in 1..Len(t) |-> IF t[i] = "," THEN "." ELSE t[i]]

\* a character class that also keeps the minus sign
IsDigitPeriodOrMinus(c) == c \in Digits \cup {".", "-"}

IsDigitOrPeriod(c) == c \in Digits \cup {"."}

\* .str.replace(r"[^\d\.]", "", regex=True)
StripNonNumeric(t) == SelectSeq(t, IsDigitOrPeriod)

RECURSIVE DigitsValue(_, _)
\* the integer written by the digits of t (periods skipped), most significant first
DigitsValue(t, acc) ==
    IF Len(t) = 0 THEN acc
    ELSE IF t[1] = "." THEN DigitsValue(Tail(t), acc)
    ELSE DigitsValue(Tail(t), 10 * acc + DigitVal(t[1]))

IsPeriod(c) == c = "."
IsDigit(c) == c \in Digits

\* number of digits after the period of t, 0 when there is no period
FracDigits(t) ==
    IF \E i \in 1..Len(t) : t[i] = "."
    THEN Len(t) - (CHOOSE i \in 1..Len(t) : t[i] = ".")
    ELSE 0

\* Python's float(str) on text made of digits, periods and minus signs:
\* an optional sign, then digits with at most one period and at least one digit
ParseFloat(t) ==
    LET neg == Len(t) > 0 /\ t[1] = "-"
        body == IF neg THEN Tail(t) ELSE t
        wellformed == /\ \A i \in 1..Len(body) : body[i] \in Digits \cup {"."}
                      /\ Len(SelectSeq(body, IsPeriod)) <= 1
                      /\ Len(SelectSeq(body, IsDigit)) >= 1
        mag == DigitsValue(body, 0)
    IN  IF wellformed
        THEN [ok |-> TRUE,
              val |-> Fin(IF neg THEN -mag ELSE mag, Pow10(FracDigits(body)))]
        ELSE [ok |-> FALSE, val |-> NaN]

\* one cell through the chain of clean_to_float; ok = FALSE is the ValueError
\* of .astype(float)
CleanCell(t) ==
    LET stripped == StripNonNumeric(ReplaceComma(t))
    IN  IF stripped = <<>> THEN [ok |-> TRUE, val |-> Fin(0, 1)]
        ELSE ParseFloat(stripped)

\* the whole series: .astype(float) raises when any cell does
clean_to_float(s) ==
    LET cells == [i \in 1..Len(s) |-> CleanCell(s[i])]
    IN  [ok |-> \A i \in 1..Len(s) : cells[i].ok,
         vals |-> [i \in 1..Len(s) |-> cells[i].val]]

(***************************************************************************)
(* Cells of the sheet.  k tells what the cell holds: a text label (s), a   *)
(* number or number-like text as str() shows it (t), an Excel date (ymd)   *)
(* or nothing.  The same shape carries the strings ("str", t), missing     *)
(* strings ("nan") and missing dates ("nat") the script derives.           *)
(***************************************************************************)
Label(s) == [k |-> "label", s |-> s, t |-> <<>>, ymd |-> <<>>]
Num(t) == [k |-> "num", s |-> "", t |-> t, ymd |-> <<>>]
Date(ymd) == [k |-> "date", s |-> "", t |-> <<>>, ymd |-> ymd]
Empty == [k |-> "empty", s |-> "", t |-> <<>>, ymd |-> <<>>]
Str(t) == [k |-> "str", s |-> "", t |-> t, ymd |-> <<>>]
NaNStr == [k |-> "nan", s |-> "", t |-> <<>>, ymd |-> <<>>]
NaT == [k |-> "nat", s |-> "", t |-> <<>>, ymd |-> <<>>]

(***************************************************************************)
(* read_excel_smart                                                        *)
(***************************************************************************)
Sentinels == {"Ophaaldatum", "Locatienummer", "Klantnaam", "# uitgevoerd", "Extra m3"}

\* any(x in row_values for x in [...]): some cell's text equals a sentinel
RowHasSentinel(row) ==
    \E j \in 1..Len(row) : row[j].k = "label" /\ row[j].s \in Sentinels

UnnamedName(j) ==
    CASE j = 1 -> "Unnamed: 0" [] j = 2 -> "Unnamed: 1" [] j = 3 -> "Unnamed: 2"
      [] j = 4 -> "Unnamed: 3" [] j = 5 -> "Unnamed: 4" [] j = 6 -> "Unnamed: 5"
      [] OTHER -> "Unnamed: 6"

\* the column name pandas makes of a header cell
ColumnName(cell, j) == IF cell.k = "label" THEN cell.s ELSE UnnamedName(j)

Pos(columns, c) == CHOOSE j \in 1..Len(columns) : columns[j] = c

\* pd.read_excel(file, skiprows=i): row i (0-based) names the columns, the
\* rows after it are the data
ReadExcel(grid, i) ==
    IF Len(grid) <= i THEN [columns |-> <<>>, rows |-> <<>>]
    ELSE LET hdr == grid[i + 1]
             columns == [j \in 1..Len(hdr) |-> ColumnName(hdr[j], j)]
             body == SubSeq(grid, i + 2, Len(grid))
         IN  [columns |-> columns,
              rows |-> [r \in 1..Len(body) |->
                          [c \in Range(columns) |-> body[r][Pos(columns, c)]]]]

\* a scan that keeps the last row with a sentinel
LastSentinelRow(grid) ==
    LET hits == {i \in 1..Len(grid) : RowHasSentinel(grid[i])}
    IN  IF hits = {} THEN 0
        ELSE (CHOOSE i \in hits : \A h \in hits : i >= h) - 1

\* index (0-based) of the first row with a sentinel; 0 when there is none
FirstSentinelRow(grid) ==
    LET hits == {i \in 1..Len(grid) : RowHasSentinel(grid[i])}
    IN  IF hits = {} THEN 0
        ELSE (CHOOSE i \in hits : \A h \in hits : i <= h) - 1

read_excel_smart(grid) ==
    LET i == FirstSentinelRow(grid)
    IN  [df |-> ReadExcel(grid, i), header_row |-> i]

(***************************************************************************)
(* Dates and their text forms                                              *)
(***************************************************************************)
DigitChar(n) ==
    CASE n = 0 -> "0" [] n = 1 -> "1" [] n = 2 -> "2" [] n = 3 -> "3"
      [] n = 4 -> "4" [] n = 5 -> "5" [] n = 6 -> "6" [] n = 7 -> "7"
      [] n = 8 -> "8" [] n = 9 -> "9"

TwoDigits(n) == <<DigitChar((n \div 10) % 10), DigitChar(n % 10)>>

FourDigits(n) == TwoDigits(n \div 100) \o TwoDigits(n % 100)

\* strftime("%d-%m-%Y") of a date <<y, m, d>>
FormatDMY(ymd) ==
    TwoDigits(ymd[3]) \o <<"-">> \o TwoDigits(ymd[2]) \o <<"-">> \o FourDigits(ymd[1])

\* day of the week, 0 = Sunday
DayOfWeek(ymd) ==
    LET y == IF ymd[2] < 3 THEN ymd[1] - 1 ELSE ymd[1]
        off == <<0, 3, 2, 5, 0, 3, 5, 1, 4, 6, 2, 4>>
    IN  (y + (y \div 4) - (y \div 100) + (y \div 400) + off[ymd[2]] + ymd[3]) % 7

DayAbbr(n) == <<"Sun", "Mon", "Tue", "Wed", "Thu", "Fri", "Sat">>[n + 1]

MonthAbbr(m) ==
    <<"Jan", "Feb", "Mar", "Apr", "May", "Jun",
      "Jul", "Aug", "Sep", "Oct", "Nov", "Dec">>[m]

\* strftime("%a %d %b %Y") with the names of the C locale (the last fallback
\* of the locale set-up; nl_NL changes the names only)
FormatKort(ymd) ==
    <<DayAbbr(DayOfWeek(ymd)), " ">> \o TwoDigits(ymd[3]) \o <<" ", MonthAbbr(ymd[2]), " ">>
        \o FourDigits(ymd[1])

\* Series.dt.strftime("%d-%m-%Y"): a missing date gives a missing string
StrfDMY(cell) == IF cell.k = "date" THEN Str(FormatDMY(cell.ymd)) ELSE NaNStr

\* Series.dt.strftime("%a %d %b %Y")
StrfKort(cell) == IF cell.k = "date" THEN Str(FormatKort(cell.ymd)) ELSE NaNStr

\* day-first reading of "dd-mm-yyyy" text
ParseDayFirst(t) ==
    IF /\ Len(t) = 10
       /\ t[3] = "-" /\ t[6] = "-"
       /\ \A i \in {1, 2, 4, 5, 7, 8, 9, 10} : t[i] \in Digits
    THEN Date(<<DigitsValue(SubSeq(t, 7, 10), 0),
                DigitsValue(SubSeq(t, 4, 5), 0),
                DigitsValue(SubSeq(t, 1, 2), 0)>>)
    ELSE NaT

\* pd.to_datetime(x, errors="coerce", dayfirst=True) on one cell
ToDatetime(cell) ==
    CASE cell.k = "date" -> Date(cell.ymd)
      [] cell.k = "str" -> ParseDayFirst(cell.t)
      [] OTHER -> NaT

\* calendar order of two dates <<y, m, d>>
DateLeq(a, b) ==
    \/ a[1] < b[1]
    \/ a[1] = b[1] /\ a[2] < b[2]
    \/ a[1] = b[1] /\ a[2] = b[2] /\ a[3] <= b[3]

\* >= and <= of a datetime column against a date; NaT compares false
DtInRange(cell, lo, hi) ==
    cell.k = "date" /\ DateLeq(lo, cell.ymd) /\ DateLeq(cell.ymd, hi)

CharCode(c) ==
    CASE c \in Digits -> 48 + DigitVal(c)
      [] c = "-" -> 45
      [] c = "." -> 46
      [] c = "," -> 44
      [] OTHER -> 32

RECURSIVE TextLess(_, _)
\* Python's < on str: by code point, a proper prefix first
TextLess(a, b) ==
    IF Len(b) = 0 THEN FALSE
    ELSE IF Len(a) = 0 THEN TRUE
    ELSE IF a[1] # b[1] THEN CharCode(a[1]) < CharCode(b[1])
    ELSE TextLess(Tail(a), Tail(b))

RECURSIVE SortByText(_)
\* the string cells of S in ascending order of their text
SortByText(S) ==
    IF S = {} THEN <<>>
    ELSE LET m == CHOOSE x \in S : \A y \in S \ {x} : TextLess(x.t, y.t)
         IN  <<m>> \o SortByText(S \ {m})

(***************************************************************************)
(* Data frames: [columns |-> names in order, rows |-> records by name]     *)
(***************************************************************************)
EmptyFrame == [columns |-> <<>>, rows |-> <<>>]

Col(d, c) == [i \in 1..Len(d.rows) |-> d.rows[i][c]]

\* d[c] = vals: replaces the column in place or appends it as the last one
Assign(d, c, vals) ==
    [columns |-> IF c \in Range(d.columns) THEN d.columns ELSE Append(d.columns, c),
     rows |-> [i \in 1..Len(d.rows) |-> (c :> vals[i]) @@ d.rows[i]]]

\* d[mask]
FilterRows(d, keep) == [columns |-> d.columns, rows |-> SelectIdx(d.rows, keep, 1)]

(***************************************************************************)
(* Stages of the script                                                    *)
(***************************************************************************)
required_cols ==
    <<"Locatienummer", "Klantnaam", "Ophaaldatum", "Volume", "# uitgevoerd", "Extra m3">>

\* a check that forgets the three numeric columns
missing_cols_short(d) ==
    SelectSeq(SubSeq(required_cols, 1, 3), LAMBDA c : c \notin Range(d.columns))

missing_cols(d) == SelectSeq(required_cols, LAMBDA c : c \notin Range(d.columns))

\* Series.dt exists only on a datetime64 column: every cell a date or empty,
\* and at least one date (an all-empty or empty column is not datetime64)
HasDtAccessor(col) ==
    /\ \A i \in 1..Len(col) : col[i].k \in {"date", "empty"}
    /\ \E i \in 1..Len(col) : col[i].k = "date"

numeric_cols == <<"Volume", "# uitgevoerd", "Extra m3">>

\* series.astype(str) on one cell: a number as written, an empty cell as "nan"
AsText(cell) ==
    CASE cell.k = "num" -> cell.t
      [] cell.k = "empty" -> <<"n", "a", "n">>
      [] OTHER -> <<"x">>

RECURSIVE CleanColumns(_, _)
\* the loop over the numeric columns; it ends at the first column that raises
CleanColumns(d, j) ==
    IF j > Len(numeric_cols) THEN [ok |-> TRUE, df |-> d]
    ELSE LET c == numeric_cols[j]
             texts == [i \in 1..Len(d.rows) |-> AsText(d.rows[i][c])]
             r == clean_to_float(texts)
         IN  IF c \notin Range(d.columns) THEN CleanColumns(d, j + 1)
             ELSE IF r.ok THEN CleanColumns(Assign(d, c, r.vals), j + 1)
             ELSE [ok |-> FALSE, df |-> d]

Thousand == 1000

\* df["Extra m3"] / (df["Volume"] / 1000)
ExtraBakken(d) ==
    [i \in 1..Len(d.rows) |->
        FDiv(d.rows[i]["Extra m3"], FDiv(d.rows[i]["Volume"], Fin(Thousand, 1)))]

Derive(d) ==
    LET volume_m3 == [i \in 1..Len(d.rows) |-> FDiv(d.rows[i]["Volume"], Fin(Thousand, 1))]
        d1 == Assign(d, "Volume_m3", volume_m3)
        d2 == Assign(d1, "Extra_bakken",
                     [i \in 1..Len(d1.rows) |->
                        FDiv(d1.rows[i]["Extra m3"], d1.rows[i]["Volume_m3"])])
    IN  Assign(d2, "Extra_kuub",
               [i \in 1..Len(d2.rows) |->
                  FAdd(d2.rows[i]["Extra m3"],
                       FMul(d2.rows[i]["Volume_m3"], d2.rows[i]["# uitgevoerd"]))])

\* lines 86-88: the date columns rebuilt from the "dd-mm-yyyy" text
DateColumns(d) ==
    LET d1 == Assign(d, "Ophaaldatum_dt",
                     [i \in 1..Len(d.rows) |-> ToDatetime(d.rows[i]["Ophaaldatum"])])
        d2 == Assign(d1, "Ophaaldatum_nl",
                     [i \in 1..Len(d1.rows) |-> StrfDMY(d1.rows[i]["Ophaaldatum_dt"])])
    IN  Assign(d2, "Ophaaldatum_kort",
               [i \in 1..Len(d2.rows) |-> StrfKort(d2.rows[i]["Ophaaldatum_dt"])])

ValidDates(d) ==
    {d.rows[i]["Ophaaldatum_dt"].ymd : i \in {j \in 1..Len(d.rows) : d.rows[j]["Ophaaldatum_dt"].k = "date"}}

min_date(d) == CHOOSE a \in ValidDates(d) : \A b \in ValidDates(d) : DateLeq(a, b)
max_date(d) == CHOOSE a \in ValidDates(d) : \A b \in ValidDates(d) : DateLeq(b, a)

\* line 103: rows whose date lies in [start, end]; a NaT row is dropped
DateFilter(d, start, end) ==
    FilterRows(d, [i \in 1..Len(d.rows) |-> DtInRange(d.rows[i]["Ophaaldatum_dt"], start, end)])

\* lines 106-107
BinColumns(d) ==
    LET d1 == Assign(d, "Extra_bakken", ExtraBakken(d))
    IN  Assign(d1, "Totaal_bakken",
               [i \in 1..Len(d1.rows) |->
                  FAdd(d1.rows[i]["# uitgevoerd"], d1.rows[i]["Extra_bakken"])])

\* line 110
FilterVolume(d, min_extra_kuub) ==
    FilterRows(d, [i \in 1..Len(d.rows) |-> FGreater(d.rows[i]["Extra m3"], min_extra_kuub)])

\* a bin filter with >= in place of >
FilterBakkenNotStrict(d, min_extra_bakken) ==
    FilterRows(d, [i \in 1..Len(d.rows) |-> FGreaterEq(d.rows[i]["Extra_bakken"], min_extra_bakken)])

\* line 113
FilterBakken(d, min_extra_bakken) ==
    FilterRows(d, [i \in 1..Len(d.rows) |-> FGreater(d.rows[i]["Extra_bakken"], min_extra_bakken)])

Flagged(d, c) == FilterBakken(FilterVolume(d, c.min_extra_kuub), c.min_extra_bakken)

(***************************************************************************)
(* Dashboard                                                               *)
(***************************************************************************)
RowsWith(d, c, key) == SelectSeq(d.rows, LAMBDA r : r[c] = key)

Column(rows, c) == [i \in 1..Len(rows) |-> rows[i][c]]

\* group keys of groupby(c): missing keys are dropped
GroupKeys(d, c) == {d.rows[i][c] : i \in 1..Len(d.rows)} \ {NaNStr, NaT, Empty}

\* df.groupby("Ophaaldatum")["Extra m3"].sum().reset_index(): groupby sorts
\* by the key, and the key is the "dd-mm-yyyy" text of line 58
DailyOrder(keys) == SortByText(keys)

Daily(d) ==
    LET order == DailyOrder(GroupKeys(d, "Ophaaldatum"))
    IN  [g \in 1..Len(order) |->
            [Ophaaldatum |-> order[g],
             sum |-> SeriesSum(Column(RowsWith(d, "Ophaaldatum", order[g]), "Extra m3"))]]

\* some order of the entries S in which field f never increases
DescendingBy(S, f) ==
    CHOOSE q \in [1..Cardinality(S) -> S] :
        /\ \A x \in S : \E i \in DOMAIN q : q[i] = x
        /\ \A i, j \in DOMAIN q : i < j => FGreaterEq(q[i][f], q[j][f])

TopN == 20

HeadN(q, n) == SubSeq(q, 1, IF Len(q) < n THEN Len(q) ELSE n)

\* df.groupby("Klantnaam")["Extra m3"].sum().sort_values(ascending=False).head(20)
Klant(d) ==
    HeadN(DescendingBy({[Klantnaam |-> key,
                        sum |-> SeriesSum(Column(RowsWith(d, "Klantnaam", key), "Extra m3"))]
                        : key \in GroupKeys(d, "Klantnaam")}, "sum"),
          TopN)

NotMissing(cell) == cell.k \notin {"nan", "nat", "empty"}

\* df_flagged.groupby("Locatienummer").agg(...).sort_values("Aantal_orders",
\* ascending=False)
Locatie(flagged) ==
    DescendingBy(
        {LET rows == RowsWith(flagged, "Locatienummer", key)
         IN  [Locatienummer |-> key,
              Aantal_orders |-> Fin(Len(SelectSeq(Column(rows, "Ophaaldatum"), NotMissing)), 1),
              Gemiddeld_extra_bakken |-> SeriesMean(Column(rows, "Extra_bakken")),
              Totaal_extra_bakken |-> SeriesSum(Column(rows, "Extra_bakken")),
              Totaal_extra_kuub |-> SeriesSum(Column(rows, "Extra m3"))]
         : key \in GroupKeys(flagged, "Locatienummer")},
        "Aantal_orders")

\* lines 117-120
Metrics(d) ==
    [total_kuub |-> SeriesSum(Col(d, "Extra m3")),
     avg_kuub |-> SeriesMean(Col(d, "Extra m3")),
     total_orders |-> Len(d.rows),
     avg_extra_bakken |-> SeriesMean(Col(d, "Extra_bakken"))]

\* lines 172-181: the column list of the exported sheet
ExportColumns(d) == d.columns \o <<"Extra_bakken", "Totaal_bakken">>

ExportFrame(d, flagged) ==
    [columns |-> ExportColumns(d), rows |-> flagged.rows]

(***************************************************************************)
(* Uploads                                                                 *)
(***************************************************************************)
GoodHeader ==
    <<Label("Ophaaldatum"), Label("Locatienummer"), Label("Klantnaam"), Label("Volume"),
      Label("# uitgevoerd"), Label("Extra m3"), Label("Opmerking")>>

\* the bin volume under another name: a required column is missing
OtherHeader ==
    <<Label("Ophaaldatum"), Label("Locatienummer"), Label("Klantnaam"), Label("Inhoud"),
      Label("# uitgevoerd"), Label("Extra m3"), Label("Opmerking")>>

TitleRow == <<Label("Rapport extra afval"), Empty, Empty, Empty, Empty, Empty, Empty>>

\* rows above the header, and the header
Layouts == {<<TitleRow, GoodHeader>>, <<OtherHeader>>}

Sites == {<<"L1", "K1">>, <<"L2", "K2">>}

DateCells == {Date(<<2024, 1, 2>>), Date(<<2024, 2, 1>>), Empty, Label("n.v.t.")}

VolumeTexts == {<<"0">>, <<"1", "0", "0", "0">>}

ExtraTexts == {<<"0">>, <<"3">>}

DataRow(date, site, volume, extra) ==
    <<date, Label(site[1]), Label(site[2]), Num(volume), Num(<<"2">>), Num(extra), Empty>>

\* rows with a thousands separator, a minus sign, and one and a half bins
OddRows ==
    {DataRow(Date(<<2024, 1, 2>>), <<"L1", "K1">>, <<"1", "0", "0", "0">>,
             <<"1", ".", "2", "3", "4", ",", "5", "6">>),
     DataRow(Date(<<2024, 1, 2>>), <<"L1", "K1">>, <<"1", "0", "0", "0">>, <<"-", "3">>),
     DataRow(Date(<<2024, 2, 1>>), <<"L2", "K2">>, <<"2", "0", "0", "0">>, <<"3">>)}

RowDomain ==
    {DataRow(date, site, volume, extra) :
        date \in DateCells, site \in Sites, volume \in VolumeTexts, extra \in ExtraTexts}
    \cup OddRows

Uploads == {layout \o data : layout \in Layouts, data \in SeqsUpTo(RowDomain, MaxRows)}

\* slider positions, in tenths (both sliders run from 0.0 to 10.0 by 0.1)
BakkenChoices == {20, 30}
KuubChoices == {10, 30}

Tenths(n) == Fin(n, 10)

\* the days the date picker is asked for
PickableDates == {<<2024, 1, 2>>, <<2024, 2, 1>>}

(***************************************************************************)
(* State machine                                                           *)
(***************************************************************************)
NoCfg == [min_extra_bakken |-> NaN, min_extra_kuub |-> NaN, start_date |-> <<>>, end_date |-> <<>>]

NoOut ==
    [success |-> <<>>, error |-> <<>>, exception |-> <<>>, period |-> <<>>, metrics |-> <<>>, daily |-> <<>>,
     klant |-> <<>>, locatie |-> <<>>, flagged_table |-> <<>>, xlsx |-> <<>>, info |-> <<>>]

NoClean == [ok |-> TRUE, vals |-> <<>>]

Idle ==
    /\ df = EmptyFrame /\ header_row = 0 /\ cfg = NoCfg
    /\ df_flagged = EmptyFrame /\ out = NoOut

Init ==
    /\ pc = "start"
    /\ upload \in Uploads
    /\ Idle
    /\ series = <<>> /\ cleaned = NoClean

\* lines 34-47
Load ==
    /\ pc = "start"
    /\ LET r == read_excel_smart(upload)
       IN  /\ df' = r.df
           /\ header_row' = r.header_row
           /\ out' = [out EXCEPT !.success = <<r.header_row + 1>>]
    /\ pc' = "loaded"
    /\ UNCHANGED <<upload, cfg, df_flagged, series, cleaned>>

\* lines 50-54, a column is missing: st.error and st.stop
ValidateStop ==
    /\ pc = "loaded"
    /\ missing_cols(df) # <<>>
    /\ out' = [out EXCEPT !.error = missing_cols(df)]
    /\ pc' = "stopped"
    /\ UNCHANGED <<upload, df, header_row, cfg, df_flagged, series, cleaned>>

\* lines 50-52, nothing is missing
ValidateOk ==
    /\ pc = "loaded"
    /\ missing_cols(df) = <<>>
    /\ pc' = "validated"
    /\ UNCHANGED <<upload, df, header_row, cfg, df_flagged, out, series, cleaned>>

WithDt(d) ==
    Assign(d, "Ophaaldatum_dt", [i \in 1..Len(d.rows) |-> ToDatetime(d.rows[i]["Ophaaldatum"])])

\* lines 57-58
PrepareDates ==
    /\ pc = "validated"
    /\ HasDtAccessor(Col(df, "Ophaaldatum"))
    /\ df' = Assign(WithDt(df), "Ophaaldatum",
                    [i \in 1..Len(df.rows) |-> StrfDMY(df.rows[i]["Ophaaldatum"])])
    /\ pc' = "dated"
    /\ UNCHANGED <<upload, header_row, cfg, df_flagged, out, series, cleaned>>

\* lines 57-58 when the uploaded column is not datetime64: line 58 reads .dt
\* of the uploaded column and raises AttributeError
PrepareDatesRaises ==
    /\ pc = "validated"
    /\ ~HasDtAccessor(Col(df, "Ophaaldatum"))
    /\ df' = WithDt(df)
    /\ out' = [out EXCEPT !.exception = <<"AttributeError">>]
    /\ pc' = "crashed"
    /\ UNCHANGED <<upload, header_row, cfg, df_flagged, series, cleaned>>

\* lines 61-73
Normalize ==
    /\ pc = "dated"
    /\ CleanColumns(df, 1).ok
    /\ df' = CleanColumns(df, 1).df
    /\ pc' = "normalized"
    /\ UNCHANGED <<upload, header_row, cfg, df_flagged, out, series, cleaned>>

\* lines 61-73 when .astype(float) raises ValueError
NormalizeRaises ==
    /\ pc = "dated"
    /\ ~CleanColumns(df, 1).ok
    /\ df' = CleanColumns(df, 1).df
    /\ out' = [out EXCEPT !.exception = <<"ValueError">>]
    /\ pc' = "crashed"
    /\ UNCHANGED <<upload, header_row, cfg, df_flagged, series, cleaned>>

\* lines 76-100: derived columns, the two sliders, the date columns and the
\* date picker
Configure ==
    /\ pc = "normalized"
    /\ \E d \in {DateColumns(Derive(df))} :
       \E b \in BakkenChoices, k \in KuubChoices, start, end \in PickableDates :
          /\ DateLeq(min_date(d), start) /\ DateLeq(start, end)
          /\ DateLeq(end, max_date(d))
          /\ df' = d
          /\ cfg' = [min_extra_bakken |-> Tenths(b), min_extra_kuub |-> Tenths(k),
                     start_date |-> start, end_date |-> end]
          /\ out' = [out EXCEPT !.period = <<FormatDMY(start), FormatDMY(end)>>]
    /\ pc' = "configured"
    /\ UNCHANGED <<upload, header_row, df_flagged, series, cleaned>>

\* lines 103-163: date filter, flagging, summary, the three tabs, the table
Dashboard ==
    /\ pc = "configured"
    /\ \E d \in {BinColumns(DateFilter(df, cfg.start_date, cfg.end_date))} :
       \E flagged \in {Flagged(d, cfg)} :
          /\ df' = d
          /\ df_flagged' = flagged
          /\ out' = [out EXCEPT !.metrics = <<Metrics(d)>>,
                                !.daily = Daily(d),
                                !.klant = Klant(d),
                                !.locatie = Locatie(flagged),
                                !.flagged_table = <<flagged>>]
    /\ pc' = "shown"
    /\ UNCHANGED <<upload, header_row, cfg, series, cleaned>>

\* an export that is never skipped
HasFlaggedAlways(flagged) == TRUE

\* not df_flagged.empty
HasFlagged(flagged) == flagged.rows # <<>> /\ flagged.columns # <<>>

\* lines 170-194
ExportXlsx ==
    /\ pc = "shown"
    /\ HasFlagged(df_flagged)
    /\ out' = [out EXCEPT !.xlsx = <<ExportFrame(df, df_flagged)>>]
    /\ pc' = "done"
    /\ UNCHANGED <<upload, df, header_row, cfg, df_flagged, series, cleaned>>

\* lines 195-196
ExportNothing ==
    /\ pc = "shown"
    /\ ~HasFlagged(df_flagged)
    /\ out' = [out EXCEPT !.info = <<"Geen geflagde orders om te exporteren.">>]
    /\ pc' = "done"
    /\ UNCHANGED <<upload, df, header_row, cfg, df_flagged, series, cleaned>>

Next ==
    \/ Load
    \/ ValidateStop
    \/ ValidateOk
    \/ PrepareDates
    \/ PrepareDatesRaises
    \/ Normalize
    \/ NormalizeRaises
    \/ Configure
    \/ Dashboard
    \/ ExportXlsx
    \/ ExportNothing

Spec == Init /\ [][Next]_vars

(***************************************************************************)
(* clean_to_float on its own: one call on a series of cell texts           *)
(***************************************************************************)
Alphabet == {"0", "1", ",", ".", "-", " ", "$"}

Texts == SeqsUpTo(Alphabet, MaxLen)

ScenarioTexts ==
    {<<"1", ".", "2", "3", "4", ",", "5", "6">>, <<"-", "3">>, <<"$", " ", "1", "2", ",", "5", "0">>,
     <<"n", "a", "n">>, <<"1", "0", "0", "0", ".", "0">>}

SeriesDomain ==
    {<<t>> : t \in Texts \cup ScenarioTexts} \cup {<<a, b>> : a, b \in ScenarioTexts}

InitClean ==
    /\ pc = "clean_start"
    /\ series \in SeriesDomain
    /\ cleaned = NoClean
    /\ upload = <<>>
    /\ Idle

\* clean_to_float returns the column of floats
CleanReturns ==
    /\ pc = "clean_start"
    /\ clean_to_float(series).ok
    /\ cleaned' = clean_to_float(series)
    /\ pc' = "cleaned"
    /\ UNCHANGED <<upload, df, header_row, cfg, df_flagged, out, series>>

\* .astype(float) raises ValueError
CleanRaises ==
    /\ pc = "clean_start"
    /\ ~clean_to_float(series).ok
    /\ cleaned' = [ok |-> FALSE, vals |-> <<>>]
    /\ pc' = "clean_raised"
    /\ UNCHANGED <<upload, df, header_row, cfg, df_flagged, out, series>>

NextClean == CleanReturns \/ CleanRaises

SpecClean == InitClean /\ [][NextClean]_vars

(***************************************************************************)
(* read_excel_smart on its own: raw grids of two columns                   *)
(***************************************************************************)
FirstColumnCells == {Label("Ophaaldatum"), Label("Titel"), Empty}
SecondColumnCells == {Label("Extra m3"), Label("Opmerking"), Empty}

GridRows == {<<a, b>> : a \in FirstColumnCells, b \in SecondColumnCells}

\* ten rows, the header in row 3 (0-based), six data rows below it
ScenarioGrid ==
    <<<<Label("Titel"), Empty>>, <<Empty, Empty>>, <<Empty, Label("Opmerking")>>,
      <<Label("Ophaaldatum"), Label("Extra m3")>>,
      <<Date(<<2024, 1, 2>>), Num(<<"3">>)>>, <<Date(<<2024, 1, 2>>), Num(<<"0">>)>>,
      <<Date(<<2024, 2, 1>>), Num(<<"1", ",", "5">>)>>, <<Empty, Num(<<"3">>)>>,
      <<Date(<<2024, 2, 1>>), Empty>>, <<Date(<<2024, 2, 1>>), Num(<<"3">>)>>>>

Grids == SeqsUpTo(GridRows, MaxGridRows) \cup {ScenarioGrid}

InitHeader ==
    /\ pc = "start"
    /\ upload \in Grids
    /\ Idle
    /\ series = <<>> /\ cleaned = NoClean

SpecHeader == InitHeader /\ [][Load]_vars

(***************************************************************************)
(* Properties                                                              *)
(***************************************************************************)
Shown == pc \in {"shown", "done"}

\* the header row of the upload as read_excel_smart chose it, and the rows below
UploadColumns ==
    IF Len(upload) <= header_row THEN <<>>
    ELSE [j \in 1..Len(upload[header_row + 1]) |-> ColumnName(upload[header_row + 1][j], j)]

UploadRows == SubSeq(upload, header_row + 2, Len(upload))

UploadCell(row, c) == row[Pos(UploadColumns, c)]

\* x > y spelled out: an infinite value exceeds every threshold, NaN none
Exceeds(x, y) == x.k = "inf" \/ (x.k = "fin" /\ x.n * y.d > y.n * x.d)

PassesBoth(r) ==
    /\ Exceeds(r["Extra_bakken"], cfg.min_extra_bakken)
    /\ Exceeds(r["Extra m3"], cfg.min_extra_kuub)

AbsentColumns == {c \in Range(required_cols) : c \notin Range(UploadColumns)}

\* C2: when the loaded table lacks a required column the run reports exactly
\* the missing columns and stops: it is never seen past the column check and
\* nothing but the load message and the error is ever produced.
C2_MissingHalts ==
    (pc # "start" /\ AbsentColumns # {}) =>
        /\ pc \in {"loaded", "stopped"}
        /\ pc = "stopped" => Range(out.error) = AbsentColumns
        /\ df = ReadExcel(upload, header_row)
        /\ df_flagged = EmptyFrame
        /\ out.metrics = <<>> /\ out.daily = <<>> /\ out.klant = <<>>
        /\ out.locatie = <<>> /\ out.flagged_table = <<>> /\ out.xlsx = <<>>

C2_Witness ==
    /\ pc = "stopped"
    /\ out.error = <<"Volume">>
    /\ Len(df.rows) = MaxRows

\* C3: clean_to_float returns a float for every cell text; no text makes the
\* call raise.
C3_NeverAborts ==
    pc \in {"cleaned", "clean_raised"} =>
        /\ pc = "cleaned"
        /\ \A i \in 1..Len(cleaned.vals) : IsFinite(cleaned.vals[i])

HasNullDate(row) == UploadCell(row, "Ophaaldatum").k # "date"

\* C4: a row whose pickup date cannot be parsed does not abort the load, and
\* its Extra m3 still counts in the per-customer aggregate.
C4_NullDateRetained ==
    /\ (pc = "crashed" /\ out.exception = <<"AttributeError">>) =>
          \A i \in 1..Len(UploadRows) : ~HasNullDate(UploadRows[i])
    /\ Shown =>
          \A i \in 1..Len(UploadRows) :
              HasNullDate(UploadRows[i]) =>
                  \E e \in Range(out.klant) :
                      /\ e.Klantnaam = UploadCell(UploadRows[i], "Klantnaam")
                      /\ FGreaterEq(e.sum, CleanCell(AsText(UploadCell(UploadRows[i], "Extra m3"))).val)

FiniteSum(col) == FSumFrom(SelectSeq(col, IsFinite), 1)

FiniteMean(col) ==
    IF SelectSeq(col, IsFinite) = <<>> THEN NaN
    ELSE FDiv(FiniteSum(col), Fin(Len(SelectSeq(col, IsFinite)), 1))

\* C5: the summary mean of Extra_bakken and the per-location mean and sum of
\* Extra_bakken are taken over the rows with a finite Extra_bakken only.
C5_NonFiniteIgnored ==
    Shown =>
        /\ out.metrics[1].avg_extra_bakken = FiniteMean(Col(df, "Extra_bakken"))
        /\ \A e \in Range(out.locatie) :
              LET bins == Column(RowsWith(df_flagged, "Locatienummer", e.Locatienummer),
                                 "Extra_bakken")
              IN  /\ e.Gemiddeld_extra_bakken = FiniteMean(bins)
                  /\ e.Totaal_extra_bakken = FiniteSum(bins)

DateBefore(a, b) == DateLeq(a, b) /\ a # b

\* C6: the per-day aggregate has one entry per pickup date of the working
\* set with that date's sum of Extra m3, earlier calendar dates first.
C6_DailyCalendarOrder ==
    Shown =>
        /\ {out.daily[g].Ophaaldatum : g \in 1..Len(out.daily)}
              = {df.rows[i]["Ophaaldatum"] : i \in 1..Len(df.rows)}
        /\ \A g \in 1..Len(out.daily) :
              out.daily[g].sum =
                  FSumFrom(Column(RowsWith(df, "Ophaaldatum", out.daily[g].Ophaaldatum), "Extra m3"), 1)
        /\ \A g, h \in 1..Len(out.daily) :
              g < h => DateBefore(ParseDayFirst(out.daily[g].Ophaaldatum.t).ymd,
                                  ParseDayFirst(out.daily[h].Ophaaldatum.t).ymd)

\* C7: the exported sheet has the uploaded columns in their order, then
\* Extra_bakken and Totaal_bakken, and one row per flagged record.
C7_ExportColumns ==
    out.xlsx # <<>> =>
        /\ out.xlsx[1].columns = UploadColumns \o <<"Extra_bakken", "Totaal_bakken">>
        /\ Len(out.xlsx[1].rows) = Len(df_flagged.rows)

\* C8: header_row is the index of the first row of the grid holding a
\* sentinel label, or 0 when no row holds one; the table takes its column
\* names from that row and has exactly the rows after it, in order, as data.
C8_FirstSentinelRow ==
    pc = "loaded" =>
        /\ \A i \in 1..header_row : ~RowHasSentinel(upload[i])
        /\ \/ header_row < Len(upload) /\ RowHasSentinel(upload[header_row + 1])
           \/ header_row = 0 /\ \A i \in 1..Len(upload) : ~RowHasSentinel(upload[i])
        /\ df.columns = UploadColumns
        /\ Len(upload) > 0 => Len(df.rows) = Len(upload) - header_row - 1
        /\ \A r \in 1..Len(df.rows) : \A j \in 1..Len(df.columns) :
              df.rows[r][df.columns[j]] = upload[header_row + 1 + r][j]

\* the ten-row grid with its header in row 3
C8_Witness ==
    /\ pc = "loaded"
    /\ Len(upload) = 10
    /\ header_row = 3
    /\ Len(df.rows) = 6

\* C9: a finished run with no flagged row has made no spreadsheet and shows
\* the nothing-to-export message; a finished run with flagged rows has made
\* the spreadsheet and shows no such message; no spreadsheet exists earlier.
C9_ExportOrNothing ==
    /\ pc = "done" =>
          IF df_flagged.rows = <<>>
          THEN out.xlsx = <<>> /\ out.info # <<>>
          ELSE out.xlsx # <<>> /\ out.info = <<>>
    /\ pc # "done" => out.xlsx = <<>> /\ out.info = <<>>

\* a run over a non-empty working set that flags nothing
C9_Witness ==
    /\ pc = "done"
    /\ df.rows # <<>>
    /\ df_flagged.rows = <<>>
    /\ out.xlsx = <<>> /\ out.info # <<>>

\* C10: every value clean_to_float returns is a finite number >= 0; the
\* minus sign is stripped, so "-3" becomes 3.
C10_NonNegative ==
    pc = "cleaned" =>
        /\ \A i \in 1..Len(cleaned.vals) :
              IsFinite(cleaned.vals[i]) /\ cleaned.vals[i].n >= 0
        /\ \A i \in 1..Len(series) :
              (Len(series[i]) = 2 /\ series[i][1] = "-" /\ series[i][2] \in Digits)
                  => cleaned.vals[i] = Fin(DigitVal(series[i][2]), 1)

C10_Witness ==
    /\ pc = "cleaned"
    /\ series = <<<<"-", "3">>>>
    /\ cleaned.vals = <<Fin(3, 1)>>

====
